---- MODULE Spec2Model ----
(***************************************************************************)
(* DUAL-UX runtime v1.1.0 (src/js/register-sw.js, lines 46-385): the       *)
(* mode-resolution and transition engine of DualUxRuntime, with the        *)
(* browser environment it samples (fullscreen element, display-mode media  *)
(* query, platform flags), the debounce timer of the media-query handler,  *)
(* the queue of fullscreenchange events, and switchUx calls suspended at   *)
(* their await on requestFullscreen(), the observers registered with on(), *)
(* and a localStorage whose writes may fail.                               *)
(***************************************************************************)
EXTENDS Naturals, Sequences, FiniteSets, TLC

\* ------------------------------------------------------------------ bounds
\* fullscreenchange events queued and not yet dispatched
MaxFsPending == 1
\* switchUx calls suspended at `await el.requestFullscreen()`
MaxSuspended == 1

\* ------------------------------------------------------------------ values
DisplayModes == {"browser", "standalone", "fullscreen"}
UxModes == {"web", "app"}
\* this.uxOverride = null
None == "none"
\* an option or a URL part that is not supplied
Absent == "absent"
\* values of the CSS display-mode media feature (exactly one matches); where
\* window.matchMedia is missing, `media` is Absent
MediaModes == {"browser", "standalone", "fullscreen", "minimal-ui"}
Strategies == {"query", "hash", "runtime"}

\* Platform facts that do not change during a page's life:
\*   standalone  - navigator.standalone ("true", "false" or "undefined")
\*   isMobile    - /Android|iPhone|iPad|iPod/i.test(navigator.userAgent)
\*   noReferrer  - !document.referrer
\*   fitsScreen  - |innerHeight - screen.height| <= 1 and innerWidth = screen.width
Platforms ==
  { [standalone |-> "undefined", isMobile |-> FALSE, noReferrer |-> TRUE,  fitsScreen |-> FALSE],
    [standalone |-> "true",      isMobile |-> TRUE,  noReferrer |-> TRUE,  fitsScreen |-> TRUE],
    [standalone |-> "undefined", isMobile |-> TRUE,  noReferrer |-> TRUE,  fitsScreen |-> TRUE] }

\* Deep-link part of the URL at boot: the value of the query parameter
\* cfg.routing.param and the hash fragment.
QueryValues == {Absent, "app", "web", "App"}
HashValues == {"", "#/app", "#/web/x", "#app"}

\* what localStorage holds under the three keys when the page loads: nothing,
\* or the strings an earlier page load wrote
StoredValues ==
  { [displayMode |-> Absent, uxMode |-> Absent, isStandalone |-> Absent],
    [displayMode |-> "standalone", uxMode |-> "app", isStandalone |-> "true"],
    [displayMode |-> "browser", uxMode |-> "web", isStandalone |-> "false"] }

Mappings == [standaloneTo : UxModes, fullscreenTo : UxModes, browserTo : UxModes]
\* options.mapping of a configure call: each key supplied or not
MappingOptions ==
  [standaloneTo : UxModes \cup {Absent}, fullscreenTo : {Absent},
   browserTo : UxModes \cup {Absent}]

VARIABLES
  \* DualUxRuntime fields
  displayMode, uxMode, uxOverride, isStandalone, cfg,
  \* environment
  fullscreenElement, media, platform,
  \* control
  booted,      \* init() has run: the listeners are bound
  t,           \* pending timeouts of the debounced onModeMaybeChanged
  fsPending,   \* fullscreenchange events queued for dispatch
  suspended,   \* switchUx calls waiting on requestFullscreen()
  handlers,    \* this.handlers: a Set, kept in insertion order
  \* environment of the observers and of the storage
  faulty,      \* the observers whose callback throws when it is called
  storageFails,\* localStorage.setItem throws (storage disabled or full)
  nav,         \* what the navigation of a switchUx call reads (see Navs)
  \* observation
  fx,          \* the side effects of the last step, in order
  session      \* what kind of run this has been since boot (see SessionAfter)

engine == <<displayMode, uxMode, uxOverride, isStandalone>>
env == <<fullscreenElement, media, platform>>
bus == <<handlers, faulty, storageFails, nav>>
vars == <<displayMode, uxMode, uxOverride, isStandalone, cfg,
          fullscreenElement, media, platform,
          booted, t, fsPending, suspended, handlers, faulty, storageFails, nav,
          fx, session>>

\* ------------------------------------------------------------------ DEFAULTS
DEFAULTS ==
  [mapping |-> [standaloneTo |-> "app", fullscreenTo |-> "app", browserTo |-> "web"]]

\* ------------------------------------------------------------------ detection
matchMedia(q) == media = q

\* window.matchMedia is there
hasMatchMedia == media # Absent

\* what detectDisplayMode reads, each signal on its own: the fullscreen
\* element, the three display-mode queries, the platform facts
Samples ==
  [fullscreenElement : BOOLEAN,
   mediaStandalone : BOOLEAN, mediaFullscreen : BOOLEAN, mediaBrowser : BOOLEAN,
   standalone : {"true", "false", "undefined"},
   isMobile : BOOLEAN, noReferrer : BOOLEAN, fitsScreen : BOOLEAN,
   hasMatchMedia : BOOLEAN]

\* detectDisplayMode did not return: a TypeError left it
Thrown == "thrown"

likelyChromeStandalone(standalone, isMobile, noReferrer, fitsScreen) ==
  /\ isMobile
  /\ standalone = "undefined"
  /\ noReferrer
  /\ fitsScreen

isLikelyChromeStandalone ==
  likelyChromeStandalone(platform.standalone, platform.isMobile,
                         platform.noReferrer, platform.fitsScreen)

\* faulty variant: the display-mode queries are consulted before the
\* fullscreen element
detect_mediaFirst(fsEl, hasMM, mStandalone, mFullscreen, mBrowser, standalone, chromeLike) ==
  IF ~hasMM THEN Thrown
  ELSE IF mStandalone \/ standalone = "true" \/ chromeLike THEN "standalone"
  ELSE IF mFullscreen \/ fsEl THEN "fullscreen"
  ELSE "browser"

\* detectDisplayMode() over the signals it reads. `window.matchMedia(...)` of
\* line 99 is a call of undefined when the facility is missing: nothing
\* guards it.
detect(fsEl, hasMM, mStandalone, mFullscreen, mBrowser, standalone, chromeLike) ==
  IF fsEl THEN "fullscreen"
  ELSE IF ~hasMM THEN Thrown
  ELSE IF mStandalone \/ standalone = "true" \/ chromeLike THEN "standalone"
  ELSE IF mFullscreen THEN "fullscreen"
  ELSE IF mBrowser THEN "browser"
  ELSE "browser"

\* detection over one sample
detectSample(s) ==
  detect(s.fullscreenElement, s.hasMatchMedia,
         s.mediaStandalone, s.mediaFullscreen, s.mediaBrowser, s.standalone,
         likelyChromeStandalone(s.standalone, s.isMobile, s.noReferrer, s.fitsScreen))

\* detection in the environment as it is now
detectDisplayMode ==
  detect(fullscreenElement, hasMatchMedia,
         matchMedia("standalone"), matchMedia("fullscreen"), matchMedia("browser"),
         platform.standalone, isLikelyChromeStandalone)

\* ------------------------------------------------------------------ URL intent
StartsWith(s, p) ==
  Len(p) <= Len(s) /\ SubSeq(s, 1, Len(p)) = p

\* the hash fragments are modelled as sequences of characters
Chars(h) ==
  CASE h = "" -> <<>>
    [] h = "#/app" -> <<"#", "/", "a", "p", "p">>
    [] h = "#/web" -> <<"#", "/", "w", "e", "b">>
    [] h = "#/web/x" -> <<"#", "/", "w", "e", "b", "/", "x">>
    [] h = "#app" -> <<"#", "a", "p", "p">>

\* faulty variant: the query value is compared without regard to case and
\* the hash tokens without their slash
readIntent_lenient(strategy, query, hash) ==
  IF strategy = "query" THEN
    IF query = "app" \/ query = "App" THEN "app"
    ELSE IF query = "web" THEN "web"
    ELSE None
  ELSE IF strategy = "hash" THEN
    IF hash \in {"#/app", "#app"} THEN "app"
    ELSE IF StartsWith(Chars(hash), Chars("#/web")) THEN "web"
    ELSE None
  ELSE None

readIntent(strategy, query, hash) ==
  IF strategy = "query" THEN
    IF query = "app" \/ query = "web" THEN query ELSE None
  ELSE IF strategy = "hash" THEN
    IF StartsWith(Chars(hash), Chars("#/app")) THEN "app"
    ELSE IF StartsWith(Chars(hash), Chars("#/web")) THEN "web"
    ELSE None
  ELSE None

\* ------------------------------------------------------------------ navigation
\* URLs are sequences of pieces; two URLs are the same string exactly when
\* they are the same sequence. A query string is kept as its list of
\* <<name, value>> pairs, the value as written in the address bar.
Pathnames == { <<"/">>, <<"/app">> }
Searches ==
  { <<>>,
    << <<"mode", "app">> >>,
    << <<"mode", "web">> >>,
    << <<"x", "a%20b">> >>,
    << <<"mode", "web">>, <<"x", "1">> >>,
    << <<"mode", "web">>, <<"mode", "app">> >> }
Hashes == { <<>>, <<"#/app">>, <<"#/web">>, <<"#top">> }
Locations == [pathname : Pathnames, search : Searches, hash : Hashes]

\* cfg.routes: '' (or a missing key) is falsy
Routes ==
  [appHome : { <<"/app">>, <<>>, <<"/", "#/app">> }, webHome : { <<"/">>, <<>> }]

\* what lines 311-316 read: the location, cfg.routes, cfg.routing.strategy
\* (param, hashApp and hashWeb at their defaults) and the call's arguments
Navs ==
  [location : Locations, routes : Routes, strategy : Strategies,
   to : UxModes, navigate : BOOLEAN]

\* DEFAULTS.routes and DEFAULTS.routing on the start page, no navigation asked
DefaultNav ==
  [location |-> [pathname |-> <<"/">>, search |-> <<>>, hash |-> <<>>],
   routes |-> [appHome |-> <<"/app">>, webHome |-> <<"/">>],
   strategy |-> "runtime", to |-> "web", navigate |-> FALSE]

RECURSIVE Join(_)
\* name=value pairs joined by '&'
Join(ps) ==
  IF ps = <<>> THEN <<>>
  ELSE <<ps[1][1], "=", ps[1][2]>>
       \o (IF Len(ps) > 1 THEN <<"&">> \o Join(Tail(ps)) ELSE <<>>)

\* location.search: the query as written
SearchString(ps) ==
  IF ps = <<>> THEN <<>> ELSE <<"?">> \o Join(ps)

\* application/x-www-form-urlencoded serialisation of a value: a space,
\* written %20 in the address bar, is serialised as '+'
FormEncode(v) == IF v = "a%20b" THEN "a+b" ELSE v

\* URLSearchParams.toString()
ParamsToString(ps) ==
  Join([i \in 1..Len(ps) |-> <<ps[i][1], FormEncode(ps[i][2])>>])

\* URLSearchParams.set(key, val): the first pair named key takes the value,
\* the other pairs named key are removed; without such a pair one is appended
SetParam(ps, key, val) ==
  IF \E i \in 1..Len(ps) : ps[i][1] = key
  THEN LET first == CHOOSE i \in 1..Len(ps) :
                      /\ ps[i][1] = key
                      /\ \A j \in 1..(i - 1) : ps[j][1] # key
           kept == SelectSeq([i \in 1..Len(ps) |-> <<i, ps[i]>>],
                             LAMBDA e : e[2][1] # key \/ e[1] = first)
       IN [i \in 1..Len(kept) |->
             IF kept[i][1] = first THEN <<key, val>> ELSE kept[i][2]]
  ELSE Append(ps, <<key, val>>)

\* location.pathname + location.search + location.hash
Current(loc) == loc.pathname \o SearchString(loc.search) \o loc.hash

\* UrlStrategy.navTo(cfg, to)
navTo(routes, strategy, loc, to) ==
  LET explicit == IF to = "app" THEN routes.appHome ELSE routes.webHome
  IN IF explicit # <<>> THEN explicit
     ELSE IF strategy = "query"
       THEN loc.pathname \o <<"?">> \o ParamsToString(SetParam(loc.search, "mode", to))
     ELSE IF strategy = "hash"
       THEN loc.pathname \o SearchString(loc.search)
            \o << IF to = "app" THEN "#/app" ELSE "#/web" >>
     ELSE Current(loc)

\* faulty variant: the navigation is issued whatever the current URL
differs_always(current, url) == TRUE

\* `if (current !== url)`
differs(current, url) == current # url

\* lines 311-316 of switchUx
navigation(n) ==
  IF n.navigate
  THEN LET url == navTo(n.routes, n.strategy, n.location, n.to)
           current == Current(n.location)
       IN << <<"navTo", url>> >>
          \o (IF differs(current, url) THEN << <<"assign", url>> >> ELSE <<>>)
  ELSE <<>>

\* ------------------------------------------------------------------ resolver
\* faulty variant: the Browser and Standalone cases read each other's mapping entry
resolveUxMode_swapped(dm, st, ov, m) ==
  IF ov # None THEN ov
  ELSE IF dm = "standalone" THEN m.browserTo
  ELSE IF dm = "fullscreen" THEN (IF st THEN "app" ELSE "web")
  ELSE m.standaloneTo

\* faulty variant: Fullscreen is read from the mapping like the other contexts
resolveUxMode_fullscreenTo(dm, st, ov, m) ==
  IF ov # None THEN ov
  ELSE IF dm = "standalone" THEN m.standaloneTo
  ELSE IF dm = "fullscreen" THEN m.fullscreenTo
  ELSE m.browserTo

resolveUxMode(dm, st, ov, m) ==
  IF ov # None THEN ov
  ELSE IF dm = "standalone" THEN m.standaloneTo
  ELSE IF dm = "fullscreen" THEN (IF st THEN "app" ELSE "web")
  ELSE m.browserTo

\* ------------------------------------------------------------------ effects
\* An effect that fails is followed, in a faulty variant that lacks the catch,
\* by the exception leaving the operation: nothing of `rest` happens.
persistCaught_rethrows(rest) == << <<"throw", "persistState">> >>

\* `catch (_) {}` of persistState: the failed write is dropped and the caller
\* goes on with what it does next
persistCaught(rest) == rest

\* persistState(): one snapshot of the three keys, written (TRUE) or refused
\* by the storage (FALSE); `rest` is what the caller does after the call
persistState(dm, ux, st, rest) ==
  << <<"persist", [displayMode |-> dm, uxMode |-> ux, isStandalone |-> st],
       ~storageFails>> >>
  \o (IF storageFails THEN persistCaught(rest) ELSE rest)

render(ux) == <<"render", ux>>

\* the callbacks a page registers with on()
Observers == {"o1", "o2"}

\* faulty variant: the exception of a callback leaves emit()
handlerCaught_rethrows(h, rest) == << <<"throw", h>> >>

\* `catch (e) { console.error(...) }` around each callback: the loop goes on
handlerCaught(h, rest) == rest

\* An observer that keeps the page on the web UX: its callback is
\*   (d) => { if (d.uxMode !== 'web') dualux.switchUx('web', { persist: false }); }
\* The call runs to its end inside the callback: without a fullscreen request
\* the async function has no await.
Kiosk == "kiosk"

\* the callback of `h`, handed `detail`, calls switchUx('web', ...)
callsSwitchUx(h, detail) == h = Kiosk /\ detail.uxMode # "web"

\* an emit of a detail with selection `ux` has a callback call switchUx
reenters(ux) ==
  ux # "web" /\ \E i \in 1..Len(handlers) : handlers[i] = Kiosk

\* the selection and the override an operation leaves whose emit announces `ux`
uxModeAfter(ux) == IF reenters(ux) THEN "web" ELSE ux
uxOverrideAfter(ov, ux) == IF reenters(ux) THEN "web" ELSE ov

\* this.handlers.forEach: every handler of the Set, in insertion order. A
\* callback that calls switchUx has that call's render and emit (lines
\* 318-321) run inside it, before the handlers after it are called.
RECURSIVE forEach(_, _)
forEach(hs, detail) ==
  IF hs = <<>> THEN <<>>
  ELSE LET h == Head(hs)
           rest == forEach(Tail(hs), detail)
           inner == [detail EXCEPT !.uxMode = "web", !.changed = TRUE, !.source = "switch"]
       IN IF h \in faulty
          THEN << <<"call", h, detail, "threw">> >> \o handlerCaught(h, rest)
          ELSE IF callsSwitchUx(h, detail)
          THEN << <<"call", h, detail, "returned">>,
                  <<"render", "web">>, <<"emit", inner>> >>
               \o forEach(handlers, inner) \o rest
          ELSE << <<"call", h, detail, "returned">> >> \o rest

\* emit(detail): the emission, then the calls of the handlers
emit(detail) == << <<"emit", detail>> >> \o forEach(handlers, detail)

Detail(dm, ux, changed, source) ==
  [displayMode |-> dm, uxMode |-> ux, changed |-> changed, source |-> source]

\* ------------------------------------------------------------------ configure
\* faulty variant: the keys that are not supplied fall back to the defaults
Merge_overDefaults(cur, opt) ==
  [k \in DOMAIN cur |->
     IF opt[k] # Absent THEN opt[k]
     ELSE [standaloneTo |-> "app", fullscreenTo |-> "app", browserTo |-> "web"][k]]

\* `{ ...this.cfg.mapping, ...options.mapping }`
Merge(cur, opt) ==
  [k \in DOMAIN cur |-> IF opt[k] = Absent THEN cur[k] ELSE opt[k]]

\* the run stays a plain browser-tab session only while nothing but
\* browser/fullscreen contexts, the default mapping and no override are seen
SessionAfter(dm, ov, m) ==
  IF session = "browser" /\ dm # "standalone" /\ ov = None /\ m = DEFAULTS.mapping
  THEN "browser" ELSE "other"

\* configure(options): the mapping is the only configuration the transitions
\* below read; the routing strategy is read once, by init (see init).
configureWith(mo) ==
  /\ cfg' = [cfg EXCEPT !.mapping = Merge(cfg.mapping, mo)]
  /\ cfg' # cfg
  /\ session' = IF booted THEN SessionAfter(displayMode, uxOverride, cfg'.mapping)
                ELSE session
  /\ fx' = <<>>
  /\ UNCHANGED <<engine, env, booted, t, fsPending, suspended, bus>>

configure ==
  \E mo \in MappingOptions : configureWith(mo)

\* ------------------------------------------------------------------ init
\* init(): cfg.routing.strategy and the URL (location.search, location.hash)
\* are inputs of the boot. init is taken once per page load ("Must be called
\* once per page load"); switchUx and configure may precede it.
\* faulty variant: the session nature of the previous page load is restored
bootNature_restored(dm, snapshot) ==
  IF snapshot.isStandalone = Absent THEN dm = "standalone"
  ELSE snapshot.isStandalone = "true"

\* `this.isStandalone = (this.displayMode === 'standalone')`: the keys in
\* localStorage are there to be read and are not read
bootNature(dm, snapshot) == dm = "standalone"

\* init() once detection has given `dm` and the session nature is `st`.
\* A boot whose detection throws ends at line 196 with nothing assigned. The
\* listeners are bound after the emit (lines 219-277), the media queries
\* first: without window.matchMedia line 220 throws and nothing is bound.
boot(dm, st, strategy, query, hash) ==
  /\ ~booted
  /\ LET intent == readIntent(strategy, query, hash)
         ov == IF intent # None THEN intent ELSE uxOverride
         ux == resolveUxMode(dm, st, ov, cfg.mapping)
     IN IF dm = Thrown
        THEN /\ fx' = << <<"throw", "detectDisplayMode">> >>
             /\ UNCHANGED <<engine, booted, session>>
        ELSE /\ booted' = hasMatchMedia
             /\ displayMode' = dm
             /\ isStandalone' = st
             /\ uxOverride' = uxOverrideAfter(ov, ux)
             /\ uxMode' = uxModeAfter(ux)
             /\ fx' = persistState(dm, ux, st,
                         << render(ux) >> \o
                         emit(Detail(dm, ux, TRUE,
                                     IF intent # None THEN "url" ELSE "detection")))
                       \o (IF hasMatchMedia THEN <<>>
                           ELSE << <<"throw", "matchMedia">> >>)
             /\ session' = IF /\ dm = "browser"
                              /\ uxOverrideAfter(ov, ux) = None
                              /\ cfg.mapping = DEFAULTS.mapping
                           THEN "browser" ELSE "other"
  /\ UNCHANGED <<cfg, env, t, fsPending, suspended, bus>>

\* init() of a page whose localStorage holds `snapshot`
initFrom(snapshot, strategy, query, hash) ==
  LET dm == detectDisplayMode
      st == bootNature(dm, snapshot)
  IN boot(dm, st, strategy, query, hash)

\* init() over whatever the storage holds
initWith(strategy, query, hash) ==
  /\ ~booted
  /\ LET dm == detectDisplayMode
     IN \E st \in { bootNature(dm, snapshot) : snapshot \in StoredValues } :
          boot(dm, st, strategy, query, hash)

init ==
  /\ ~booted
  /\ \E strategy \in Strategies, query \in QueryValues, hash \in HashValues :
       initWith(strategy, query, hash)

\* ------------------------------------------------------------------ environment
\* faulty variant: the pending timeout is not cleared
debounce_noClear(pending) == pending + 1

\* One call of the debounced function: `if (t) window.clearTimeout(t)`, then
\* `t = window.setTimeout(...)`. The value is the number of timeouts pending
\* after the call.
debounce(pending) == (IF pending > 0 THEN pending - 1 ELSE pending) + 1

\* the MediaQueryLists of init (standalone, fullscreen, browser) whose match
\* changes when the feature goes from `from` to `to`: each delivers 'change'
Changed(from, to) == {from, to} \cap {"standalone", "fullscreen", "browser"}

\* The display-mode media feature changes: each MediaQueryList whose match
\* changed delivers 'change' to the one debounced onModeMaybeChanged, one
\* after the other.
mediaChange ==
  /\ \E q \in MediaModes \ {media} :
       /\ media' = q
       /\ t' = IF ~booted THEN t
               ELSE IF Cardinality(Changed(media, q)) = 2 THEN debounce(debounce(t))
               ELSE debounce(t)
  /\ fx' = <<>>
  /\ UNCHANGED <<engine, cfg, fullscreenElement, platform, booted, fsPending,
                 suspended, session, bus>>

\* An element enters or leaves fullscreen (user gesture, F11/ESC, page script):
\* the document queues a fullscreenchange event.
queueFullscreenchange ==
  IF booted THEN fsPending + 1 ELSE fsPending

enterFullscreen ==
  /\ ~fullscreenElement
  /\ booted => fsPending < MaxFsPending
  /\ fullscreenElement' = TRUE
  /\ fsPending' = queueFullscreenchange
  /\ fx' = <<>>
  /\ UNCHANGED <<engine, cfg, media, platform, booted, t, suspended, session, bus>>

exitFullscreen ==
  /\ fullscreenElement
  /\ booted => fsPending < MaxFsPending
  /\ fullscreenElement' = FALSE
  /\ fsPending' = queueFullscreenchange
  /\ fx' = <<>>
  /\ UNCHANGED <<engine, cfg, media, platform, booted, t, suspended, session, bus>>

\* ------------------------------------------------------------------ handlers
\* faulty variant: the early return on an unchanged context is missing
contextChanged_always(nextDisplay) == TRUE

\* `if (nextDisplay === this.displayMode) return;`
contextChanged(nextDisplay) == nextDisplay # displayMode

\* faulty variant: the handler renders before it persists
cycle_renderFirst(dm, ux, st, source) ==
  << render(ux) >> \o persistState(dm, ux, st, emit(Detail(dm, ux, TRUE, source)))

\* faulty variant: the handler writes the keys before it assigns the new state
cycle_persistsPrevious(dm, ux, st, source) ==
  persistState(displayMode, uxMode, isStandalone,
               << render(ux) >> \o emit(Detail(dm, ux, TRUE, source)))

\* one persist / render / emit cycle of a context-change handler
cycle(dm, ux, st, source) ==
  persistState(dm, ux, st, << render(ux) >> \o emit(Detail(dm, ux, TRUE, source)))

mediaIsStandalone(nextDisplay) ==
  IF nextDisplay = "standalone" THEN TRUE
  ELSE IF nextDisplay = "browser" THEN FALSE
  ELSE isStandalone

\* faulty variant: the media-query handler recomputes the selection under an override
mediaUxMode_ignoresOverride(nextDisplay, st) ==
  IF nextDisplay = "fullscreen" THEN (IF st THEN "app" ELSE "web")
  ELSE resolveUxMode(nextDisplay, st, None, cfg.mapping)

\* faulty variant: the inline fullscreen branch takes the browser mapping for
\* a session that is not standalone
mediaUxMode_browserTo(nextDisplay, st) ==
  IF uxOverride = None THEN
    IF nextDisplay = "fullscreen" THEN (IF st THEN "app" ELSE cfg.mapping.browserTo)
    ELSE resolveUxMode(nextDisplay, st, uxOverride, cfg.mapping)
  ELSE uxMode

mediaUxMode(nextDisplay, st) ==
  IF uxOverride = None THEN
    IF nextDisplay = "fullscreen" THEN (IF st THEN "app" ELSE "web")
    ELSE resolveUxMode(nextDisplay, st, uxOverride, cfg.mapping)
  ELSE uxMode

\* the debounce timer fires
onModeMaybeChanged ==
  /\ t > 0
  /\ t' = t - 1
  /\ LET nextDisplay == detectDisplayMode
         st == mediaIsStandalone(nextDisplay)
         ux == mediaUxMode(nextDisplay, st)
     IN IF ~contextChanged(nextDisplay)
        THEN /\ fx' = <<>>
             /\ UNCHANGED <<engine, session>>
        ELSE /\ displayMode' = nextDisplay
             /\ isStandalone' = st
             /\ uxMode' = uxModeAfter(ux)
             /\ uxOverride' = uxOverrideAfter(uxOverride, ux)
             /\ fx' = cycle(nextDisplay, ux, st, "media")
             /\ session' = SessionAfter(nextDisplay, uxOverrideAfter(uxOverride, ux),
                                        cfg.mapping)
  /\ UNCHANGED <<cfg, env, booted, fsPending, suspended, bus>>

\* faulty variant: the session nature is recomputed on fullscreen entry too
fsIsStandalone_recomputed(nowFullscreen, nextDisplay) ==
  IF uxOverride = None THEN nextDisplay = "standalone" ELSE isStandalone

fsIsStandalone(nowFullscreen, nextDisplay) ==
  IF uxOverride = None /\ ~nowFullscreen THEN nextDisplay = "standalone"
  ELSE isStandalone

\* faulty variant: on fullscreen entry the selection is taken from mapping.fullscreenTo
fsUxMode_fullscreenTo(nowFullscreen, nextDisplay, st) ==
  IF uxOverride = None THEN
    IF nowFullscreen THEN cfg.mapping.fullscreenTo
    ELSE resolveUxMode(nextDisplay, st, uxOverride, cfg.mapping)
  ELSE uxMode

\* faulty variant: on fullscreen entry the selection goes through mapping.browserTo
fsUxMode_browserTo(nowFullscreen, nextDisplay, st) ==
  IF uxOverride = None THEN
    IF nowFullscreen THEN cfg.mapping.browserTo
    ELSE resolveUxMode(nextDisplay, st, uxOverride, cfg.mapping)
  ELSE uxMode

fsUxMode(nowFullscreen, nextDisplay, st) ==
  IF uxOverride = None THEN
    IF nowFullscreen THEN (IF isStandalone THEN "app" ELSE "web")
    ELSE resolveUxMode(nextDisplay, st, uxOverride, cfg.mapping)
  ELSE uxMode

\* faulty variant: on exit the listener takes the context to be Browser
\* without detecting
fsNextDisplay_browser(nowFullscreen) ==
  IF nowFullscreen THEN "fullscreen" ELSE "browser"

\* `nowFullscreen ? 'fullscreen' : detectDisplayMode()`
fsNextDisplay(nowFullscreen) ==
  IF nowFullscreen THEN "fullscreen" ELSE detectDisplayMode

\* a queued fullscreenchange event is dispatched
fullscreenchange ==
  /\ fsPending > 0
  /\ fsPending' = fsPending - 1
  /\ LET nowFullscreen == fullscreenElement
         nextDisplay == fsNextDisplay(nowFullscreen)
         st == fsIsStandalone(nowFullscreen, nextDisplay)
         ux == fsUxMode(nowFullscreen, nextDisplay, st)
     IN IF ~contextChanged(nextDisplay)
        THEN /\ fx' = <<>>
             /\ UNCHANGED <<engine, session>>
        ELSE /\ displayMode' = nextDisplay
             /\ isStandalone' = st
             /\ uxMode' = uxModeAfter(ux)
             /\ uxOverride' = uxOverrideAfter(uxOverride, ux)
             /\ fx' = cycle(nextDisplay, ux, st, "fullscreen")
             /\ session' = SessionAfter(nextDisplay, uxOverrideAfter(uxOverride, ux),
                                        cfg.mapping)
  /\ UNCHANGED <<cfg, env, booted, t, suspended, bus>>

\* ------------------------------------------------------------------ switchUx
\* lines 318-322: what switchUx does after the optional fullscreen request
\* (the optional navigation of lines 311-316 leaves the engine state alone;
\* it is followed on its own, see switchUxNavigate).
switchTail(dm, ux, prev) ==
  << render(ux) >> \o emit(Detail(dm, ux, prev # ux, "switch"))

\* options.persist of a switchUx call: not supplied, true or false
PersistOptions == {Absent, "true", "false"}

\* faulty variant: a call that leaves persist out does not write
wantsPersist_onlyTrue(persist) == persist = "true"

\* `const persist = opts.persist !== false;`
wantsPersist(persist) == persist # "false"

\* `if (requestFullscreen && to === 'app')`
requestsFullscreen(to, requestFullscreen) == requestFullscreen /\ to = "app"

\* faulty variant: the failure of the request leaves switchUx
requestCaught_rethrows(rest) == << <<"throw", "requestFullscreen">> >>

\* `catch (_) {}` around the request: the failure is dropped, switchUx goes on
requestCaught(rest) == rest

\* What the request of lines 305-308 comes to:
\*   none    - the condition of line 304 is false
\*   missing - el.requestFullscreen is not there, nothing is called
\*   throws  - el.requestFullscreen() throws at once
\*   awaits  - el.requestFullscreen() returns a promise, the call suspends
RequestOutcomes == {"none", "missing", "throws", "awaits"}

\* lines 292-309, and 318-322 when the call does not suspend
switchUxCall(to, persist, requestFullscreen, outcome) ==
  /\ (outcome # "none") <=> requestsFullscreen(to, requestFullscreen)
  /\ outcome = "awaits" => Len(suspended) < MaxSuspended
  /\ uxOverride' = IF outcome = "awaits" THEN to ELSE uxOverrideAfter(to, to)
  /\ uxMode' = IF outcome = "awaits" THEN to ELSE uxModeAfter(to)
  /\ UNCHANGED <<displayMode, isStandalone>>
  /\ LET prev == uxMode
         tail == switchTail(displayMode, to, prev)
         rest == CASE outcome = "awaits" ->
                        << <<"requestFullscreen", to, "pending">> >>
                   [] outcome = "throws" ->
                        << <<"requestFullscreen", to, "threw">> >> \o requestCaught(tail)
                   [] OTHER -> tail
     IN /\ suspended' = IF outcome = "awaits"
                        THEN Append(suspended,
                                    [to |-> to, prev |-> prev, status |-> "pending"])
                        ELSE suspended
        /\ fx' = IF wantsPersist(persist)
                 THEN persistState(displayMode, to, isStandalone, rest)
                 ELSE rest
  /\ session' = IF booted THEN "other" ELSE session
  /\ UNCHANGED <<cfg, env, booted, t, fsPending, bus>>

switchUx ==
  \E to \in UxModes, persist \in PersistOptions, requestFullscreen \in BOOLEAN,
     outcome \in RequestOutcomes :
    switchUxCall(to, persist, requestFullscreen, outcome)

\* the browser grants the request: the document element becomes the
\* fullscreen element, fullscreenchange is queued and the promise resolves
requestGranted ==
  \E i \in 1..Len(suspended) :
    /\ suspended[i].status = "pending"
    /\ booted => fsPending < MaxFsPending
    /\ suspended' = [suspended EXCEPT ![i].status = "resolved"]
    /\ fullscreenElement' = TRUE
    /\ fsPending' = queueFullscreenchange
    /\ fx' = <<>>
    /\ UNCHANGED <<engine, cfg, media, platform, booted, t, session, bus>>

Remove(s, i) == SubSeq(s, 1, i - 1) \o SubSeq(s, i + 1, Len(s))

\* the call continues after its await (lines 318-322), the request having
\* failed or not
switchUxContinue(i, failed) ==
  /\ suspended' = Remove(suspended, i)
  /\ fx' = LET tail == switchTail(displayMode, uxMode, suspended[i].prev)
           IN IF failed THEN requestCaught(tail) ELSE tail
  /\ uxMode' = uxModeAfter(uxMode)
  /\ uxOverride' = uxOverrideAfter(uxOverride, uxMode)
  /\ UNCHANGED <<displayMode, isStandalone, cfg, env, booted, t, fsPending, session, bus>>

\* the browser refuses the request (no user gesture, permission): the promise
\* rejects, `catch (_) {}` discards the rejection and the call continues
requestRejected ==
  \E i \in 1..Len(suspended) :
    /\ suspended[i].status = "pending"
    /\ switchUxContinue(i, TRUE)

\* a call whose request was granted continues
switchUxResume ==
  \E i \in 1..Len(suspended) :
    /\ suspended[i].status = "resolved"
    /\ switchUxContinue(i, FALSE)

\* ------------------------------------------------------------------ specification
\* the state after `new DualUxRuntime()`, in any environment
Init ==
  /\ displayMode = "browser"
  /\ uxMode = "web"
  /\ uxOverride = None
  /\ isStandalone = FALSE
  /\ cfg = DEFAULTS
  /\ fullscreenElement \in BOOLEAN
  /\ media \in MediaModes
  /\ platform \in Platforms
  /\ booted = FALSE
  /\ t = 0
  /\ fsPending = 0
  /\ suspended = <<>>
  /\ handlers = <<>>
  /\ faulty = {}
  /\ storageFails = FALSE
  /\ nav = DefaultNav
  /\ fx = <<>>
  /\ session = "none"

Next ==
  \/ configure
  \/ init
  \/ mediaChange
  \/ enterFullscreen
  \/ exitFullscreen
  \/ onModeMaybeChanged
  \/ fullscreenchange
  \/ switchUx
  \/ requestGranted
  \/ requestRejected
  \/ switchUxResume

Spec == Init /\ [][Next]_vars

\* switchUx in depth: a desktop browser (no navigator.standalone, not a
\* mobile user agent) with the default configuration, every operation but
\* configure.
DesktopPlatform ==
  [standalone |-> "undefined", isMobile |-> FALSE, noReferrer |-> TRUE, fitsScreen |-> FALSE]

InitSwitch ==
  /\ Init
  /\ platform = DesktopPlatform

NextSwitch ==
  \/ init
  \/ mediaChange
  \/ enterFullscreen
  \/ exitFullscreen
  \/ onModeMaybeChanged
  \/ fullscreenchange
  \/ switchUx
  \/ requestGranted
  \/ requestRejected
  \/ switchUxResume

SpecSwitch == InitSwitch /\ [][NextSwitch]_vars

\* The resolver on its own: every input of resolveUxMode, then one resolution.
InitResolve ==
  /\ displayMode \in DisplayModes
  /\ uxMode \in UxModes
  /\ uxOverride \in UxModes \cup {None}
  /\ isStandalone \in BOOLEAN
  /\ cfg \in [mapping : Mappings]
  /\ fullscreenElement = FALSE
  /\ media = "browser"
  /\ platform \in Platforms
  /\ booted = FALSE
  /\ t = 0
  /\ fsPending = 0
  /\ suspended = <<>>
  /\ handlers = <<>>
  /\ faulty = {}
  /\ storageFails = FALSE
  /\ nav = DefaultNav
  /\ fx = <<>>
  /\ session = "none"

\* `this.uxMode = this.resolveUxMode();`
resolveStep ==
  /\ fx = <<>>
  /\ uxMode' = resolveUxMode(displayMode, isStandalone, uxOverride, cfg.mapping)
  /\ fx' = << <<"resolve", uxMode'>> >>
  /\ UNCHANGED <<displayMode, uxOverride, isStandalone, cfg, env, booted, t,
                 fsPending, suspended, session, bus>>

NextResolve == resolveStep

SpecResolve == InitResolve /\ [][NextResolve]_vars

\* ------------------------------------------------------------------ observers
\* faulty variant: the handlers are kept in an array, on() pushes
add_push(hs, h) == Append(hs, h)

\* Set.prototype.add: a value already in the Set keeps its place
add(hs, h) ==
  IF \E i \in 1..Len(hs) : hs[i] = h THEN hs ELSE Append(hs, h)

\* Set.prototype.delete
delete(hs, h) == SelectSeq(hs, LAMBDA x : x # h)

\* on(_event, handler)
on ==
  \E h \in Observers :
    /\ handlers' = add(handlers, h)
    /\ fx' = << <<"on", h>> >>
    /\ UNCHANGED <<engine, cfg, env, booted, t, fsPending, suspended, session,
                   faulty, storageFails, nav>>

\* off(_event, handler)
off ==
  \E h \in Observers :
    /\ handlers' = delete(handlers, h)
    /\ fx' = << <<"off", h>> >>
    /\ UNCHANGED <<engine, cfg, env, booted, t, fsPending, suspended, session,
                   faulty, storageFails, nav>>

\* the observers whose callback may come to throw
Breakable == {"o1"}

\* a callback starts or stops throwing (its own state, its own bugs)
callbackChange ==
  /\ \E h \in Breakable :
       faulty' = IF h \in faulty THEN faulty \ {h} ELSE faulty \cup {h}
  /\ fx' = <<>>
  /\ UNCHANGED <<engine, cfg, env, booted, t, fsPending, suspended, session,
                 handlers, storageFails, nav>>

\* The engine with observers: a desktop browser tab, a page that boots,
\* switches, registers and removes observers, callbacks that may throw; the
\* context changes through the media query and through granted fullscreen
\* requests.
InitBus ==
  /\ InitSwitch
  /\ media = "browser"
  /\ fullscreenElement = FALSE

NextBus ==
  \/ init
  \/ mediaChange
  \/ onModeMaybeChanged
  \/ fullscreenchange
  \/ switchUx
  \/ requestGranted
  \/ requestRejected
  \/ switchUxResume
  \/ on
  \/ off
  \/ callbackChange

SpecBus == InitBus /\ [][NextBus]_vars

\* ------------------------------------------------------------------ re-entrant observers
\* on(_event, handler) / off(_event, handler) for the Kiosk observer
onKiosk ==
  /\ handlers' = add(handlers, Kiosk)
  /\ fx' = << <<"on", Kiosk>> >>
  /\ UNCHANGED <<engine, cfg, env, booted, t, fsPending, suspended, session,
                 faulty, storageFails, nav>>

offKiosk ==
  /\ handlers' = delete(handlers, Kiosk)
  /\ fx' = << <<"off", Kiosk>> >>
  /\ UNCHANGED <<engine, cfg, env, booted, t, fsPending, suspended, session,
                 faulty, storageFails, nav>>

\* The engine with observers one of which calls switchUx from its callback:
\* a desktop browser tab that boots, switches (a fullscreen request, if made,
\* is refused) and whose media feature changes.
NextReentry ==
  \/ init
  \/ mediaChange
  \/ onModeMaybeChanged
  \/ switchUx
  \/ requestRejected
  \/ on
  \/ off
  \/ onKiosk
  \/ offKiosk

SpecReentry == InitBus /\ [][NextReentry]_vars

\* ------------------------------------------------------------------ storage
\* localStorage starts or stops refusing writes (quota reached, storage
\* disabled or enabled again)
storageChange ==
  /\ storageFails' = ~storageFails
  /\ fx' = <<>>
  /\ UNCHANGED <<engine, cfg, env, booted, t, fsPending, suspended, session,
                 handlers, faulty, nav>>

\* The engine over a storage that may refuse writes, in the desktop browser
\* of SpecSwitch.
NextStore ==
  \/ NextSwitch
  \/ storageChange

SpecStore == InitSwitch /\ [][NextStore]_vars

\* ------------------------------------------------------------------ detection alone
\* detectDisplayMode on its own: every combination of the signals it reads
detectStep ==
  /\ fx = <<>>
  /\ \E s \in Samples : fx' = << <<"detect", s, detectSample(s)>> >>
  /\ UNCHANGED <<engine, cfg, env, booted, t, fsPending, suspended, session, bus>>

InitDetect ==
  /\ InitSwitch
  /\ media = "browser"
  /\ fullscreenElement = FALSE

NextDetect == detectStep

SpecDetect == InitDetect /\ [][NextDetect]_vars

\* ------------------------------------------------------------------ boot alone
\* Configuration and boot in every environment, one without matchMedia
\* among them.
InitBoot ==
  /\ displayMode = "browser"
  /\ uxMode = "web"
  /\ uxOverride = None
  /\ isStandalone = FALSE
  /\ cfg = DEFAULTS
  /\ fullscreenElement \in BOOLEAN
  /\ media \in MediaModes \cup {Absent}
  /\ platform \in Platforms
  /\ booted = FALSE
  /\ t = 0
  /\ fsPending = 0
  /\ suspended = <<>>
  /\ handlers = <<>>
  /\ faulty = {}
  /\ storageFails = FALSE
  /\ nav = DefaultNav
  /\ fx = <<>>
  /\ session = "none"

NextBoot ==
  \/ configure
  \/ init

SpecBoot == InitBoot /\ [][NextBoot]_vars

\* ------------------------------------------------------------------ the two signal sources
\* Boot, both handlers and switchUx on every platform, under the default
\* mapping.
SpecSignals == Init /\ [][NextSwitch]_vars

\* ------------------------------------------------------------------ debounce alone
\* Boot and the media-query path on their own, in the desktop browser. A
\* timeout set by window.setTimeout and not cleared fires: the fired callback
\* is weakly fair.
NextDebounce ==
  \/ init
  \/ mediaChange
  \/ onModeMaybeChanged

SpecDebounce ==
  /\ InitSwitch
  /\ [][NextDebounce]_vars
  /\ WF_vars(onModeMaybeChanged)

\* ------------------------------------------------------------------ rendering alone
\* render() over the page's DOM. A container is the element its selector of
\* cfg.targets finds (present or not: no selector, or no such element) with
\* the classes on it; the two selectors name different elements.
ClassNames == {"hidden", "is-off"}
Containers == [present : {TRUE}, classes : SUBSET ClassNames]
                \cup [present : {FALSE}, classes : {{}}]
Doms == [app : Containers, web : Containers]

\* faulty variant: classList.toggle in place of classList.add
hide_toggles(el, hidden) ==
  IF ~el.present THEN el
  ELSE IF hidden \in el.classes THEN [el EXCEPT !.classes = @ \ {hidden}]
  ELSE [el EXCEPT !.classes = @ \cup {hidden}]

\* `el && el.classList.add(hidden)`
hide(el, hidden) ==
  IF el.present THEN [el EXCEPT !.classes = @ \cup {hidden}] ELSE el

\* `el && el.classList.remove(hidden)`
show(el, hidden) ==
  IF el.present THEN [el EXCEPT !.classes = @ \ {hidden}] ELSE el

\* faulty variant: without the fallback to the other container
renderDom_noFallback(ux, hidden, dom) ==
  IF ux = "app"
  THEN IF dom.app.present
       THEN [app |-> show(dom.app, hidden), web |-> hide(dom.web, hidden)]
       ELSE dom
  ELSE IF dom.web.present
       THEN [app |-> hide(dom.app, hidden), web |-> show(dom.web, hidden)]
       ELSE dom

\* render() with this.uxMode = ux and cfg.targets.hiddenClass = hidden: the
\* DOM it leaves
renderDom(ux, hidden, dom) ==
  IF ux = "app"
  THEN IF dom.app.present
       THEN [app |-> show(dom.app, hidden),
             web |-> IF dom.web.present THEN hide(dom.web, hidden) ELSE dom.web]
       ELSE [app |-> dom.app,
             web |-> IF dom.web.present THEN show(dom.web, hidden) ELSE dom.web]
  ELSE IF dom.web.present
       THEN [app |-> IF dom.app.present THEN hide(dom.app, hidden) ELSE dom.app,
             web |-> show(dom.web, hidden)]
       ELSE [app |-> IF dom.app.present THEN show(dom.app, hidden) ELSE dom.app,
             web |-> dom.web]

\* the page as loaded: its DOM and the hidden class of the configuration
pageLoad ==
  /\ fx = <<>>
  /\ \E dom \in Doms, hidden \in ClassNames :
       fx' = << <<"dom", [ux |-> Absent, hidden |-> hidden, before |-> dom,
                          after |-> dom, again |-> FALSE]>> >>
  /\ UNCHANGED <<engine, cfg, env, booted, t, fsPending, suspended, session, bus>>

\* one call of render() on the DOM the last step left; `again` says that the
\* last step was a render() with the same selection
renderStep ==
  /\ fx # <<>>
  /\ fx[1][1] = "dom"
  /\ \E ux \in UxModes :
       LET last == fx[1][2]
       IN fx' = << <<"dom", [ux |-> ux, hidden |-> last.hidden, before |-> last.after,
                             after |-> renderDom(ux, last.hidden, last.after),
                             again |-> (last.ux = ux)]>> >>
  /\ UNCHANGED <<engine, cfg, env, booted, t, fsPending, suspended, session, bus>>

NextRender ==
  \/ pageLoad
  \/ renderStep

SpecRender == InitDetect /\ [][NextRender]_vars

\* The navigation of switchUx on its own: every location, route
\* configuration, strategy, target and navigate option, then lines 311-316.
InitNav ==
  /\ Init
  /\ platform = DesktopPlatform
  /\ media = "browser"
  /\ fullscreenElement = FALSE

switchUxNavigate ==
  /\ fx = <<>>
  /\ \E n \in Navs :
       /\ nav' = n
       /\ fx' = << <<"switchUx", n.to>> >> \o navigation(n)
  /\ UNCHANGED <<engine, cfg, env, booted, t, fsPending, suspended, session,
                 handlers, faulty, storageFails>>

NextNav == switchUxNavigate

SpecNav == InitNav /\ [][NextNav]_vars

\* ------------------------------------------------------------------ observation
\* the effects of one kind among the effects of the last step
Effects(f, kind) == SelectSeq(f, LAMBDA e : e[1] = kind)

\* the last step emitted a TransitionDetail with this source
Emitted(f, source) ==
  \E i \in 1..Len(f) : f[i][1] = "emit" /\ f[i][2].source = source

\* the last step was a context-change cycle (of either handler)
ContextCycle(f) == Emitted(f, "media") \/ Emitted(f, "fullscreen")

\* ------------------------------------------------------------------ claims
\* C1: a manual override, once set, is never reset to none by any operation,
\* and from then on the selection equals the override: no boot, context-change
\* signal or switchUx step leaves uxMode different from a set uxOverride.
C1_OverrideDominates ==
  [][ /\ uxOverride # None => uxOverride' # None
      /\ uxOverride' # None => uxMode' = uxOverride' ]_vars

\* an override is active, a context change has just been handled, and the
\* resolver without the override would have selected the other UX
C1_Witness ==
  /\ uxOverride # None
  /\ ContextCycle(fx)
  /\ resolveUxMode(displayMode, isStandalone, None, cfg.mapping) # uxMode

\* the four rules of the resolver, in order
C2_Reference(context, sessionNature, override, mapping) ==
  CASE override # None -> override
    [] override = None /\ context = "standalone" -> mapping.standaloneTo
    [] override = None /\ context = "fullscreen" ->
         IF sessionNature THEN "app" ELSE "web"
    [] override = None /\ context = "browser" -> mapping.browserTo

\* C2: for every context, sessionNature, override and mapping, resolveUxMode
\* returns a UX selection, and it is the one the four-rule reference gives.
C2_ResolveIsReference ==
  fx # <<>> =>
    /\ uxMode \in UxModes
    /\ uxMode = C2_Reference(displayMode, isStandalone, uxOverride, cfg.mapping)

\* a resolution in Browser with no override under a mapping that sends
\* Browser to App and Standalone to Web
C2_Witness ==
  /\ fx # <<>>
  /\ displayMode = "browser" /\ uxOverride = None
  /\ cfg.mapping.browserTo = "app" /\ cfg.mapping.standaloneTo = "web"
  /\ uxMode = "app"

\* C3: with no override in Fullscreen the resolved selection depends on
\* sessionNature alone: resolving under any other mapping (standaloneTo,
\* browserTo and fullscreenTo varied) gives the same selection.
C3_FullscreenIgnoresMapping ==
  (fx # <<>> /\ uxOverride = None /\ displayMode = "fullscreen") =>
    \A m \in Mappings :
      resolveUxMode("fullscreen", isStandalone, None, m) = uxMode

\* a Fullscreen resolution of a standalone session whose mapping says
\* fullscreenTo = web and standaloneTo = web: the selection is App all the same
C3_Witness ==
  /\ fx # <<>> /\ uxOverride = None /\ displayMode = "fullscreen"
  /\ isStandalone
  /\ cfg.mapping.fullscreenTo = "web" /\ cfg.mapping.standaloneTo = "web"
  /\ uxMode = "app"

\* the context a handler step of this transition detected: the timer callback
\* samples detectDisplayMode, the fullscreenchange listener reads the
\* fullscreen element first
TimerFired == t' < t
FsDispatched == fsPending' < fsPending
Detected ==
  IF FsDispatched /\ fullscreenElement THEN "fullscreen" ELSE detectDisplayMode

\* C4 (as claimed): with no override, a handled context change into
\* Fullscreen, from either signal source and under every mapping, leaves the
\* selection as it was immediately before.
C4_FullscreenEntryKeepsSelection ==
  [][ ( /\ ContextCycle(fx')
        /\ uxOverride = None
        /\ displayMode # "fullscreen" /\ displayMode' = "fullscreen" )
      => uxMode' = uxMode ]_vars

C6_NatureMatchesContext ==
  booted =>
    /\ displayMode = "standalone" => isStandalone
    /\ displayMode = "browser" => ~isStandalone

C8_BrowserSessionStaysWeb ==
  session = "browser" => (uxMode = "web" /\ ~isStandalone)

\* such a session has just left fullscreen and is back in Browser
C8_Witness ==
  /\ session = "browser"
  /\ Emitted(fx, "fullscreen")
  /\ displayMode = "browser" /\ ~fullscreenElement

\* C9: a context-change handler performs a persist / render / notify cycle
\* iff the context it detects differs from the tracked one: unchanged, it
\* changes no engine state and has no effect; changed, it tracks the new
\* context and persists, renders and notifies exactly once each.
C9_CycleIffContextChanged ==
  [][ (TimerFired \/ FsDispatched) =>
        IF Detected = displayMode
        THEN /\ fx' = <<>>
             /\ engine' = engine
        ELSE /\ displayMode' = Detected
             /\ Len(Effects(fx', "persist")) = 1
             /\ Len(Effects(fx', "render")) = 1
             /\ Len(Effects(fx', "emit")) = 1
             /\ Len(fx') = 3 ]_vars

\* a context change handled under an active override, where the automatic
\* resolution is not what is shown: the cycle still ran
C9_Witness ==
  /\ ContextCycle(fx)
  /\ uxOverride # None
  /\ Len(Effects(fx, "persist")) = 1
  /\ Len(Effects(fx, "render")) = 1

\* C10 (as claimed): in every TransitionDetail emitted for a context change,
\* `changed` is true exactly when the selection after the transition differs
\* from the selection before it.
C10_ChangedReflectsSelection ==
  [][ ContextCycle(fx') =>
        \A i \in 1..Len(fx') :
          fx'[i][1] = "emit" => (fx'[i][2].changed <=> (uxMode' # uxMode)) ]_vars

\* ------------------------------------------------------------------ switchUx claims
\* the TransitionDetails emitted by the last step, in order
Details(f) ==
  [i \in 1..Len(Effects(f, "emit")) |-> Effects(f, "emit")[i][2]]

\* a switchUx call ran to its end in this step: it was called and did not
\* suspend, or it continued after its await
SwitchDetail(f, to, prev) ==
  /\ Len(Details(f)) = 1
  /\ Details(f)[1].source = "switch"
  /\ Details(f)[1].uxMode = to
  /\ Details(f)[1].changed = (to # prev)

\* every way to read the last step as a switchUx call (a call sets override
\* and selection to its target and has at least one effect)
SwitchUxCalls ==
  IF fx' # <<>> /\ uxOverride' = uxMode'
  THEN { c \in [to : {uxMode'}, persist : PersistOptions,
                requestFullscreen : BOOLEAN, outcome : RequestOutcomes] :
           switchUxCall(c.to, c.persist, c.requestFullscreen, c.outcome) }
  ELSE {}

\* every way to read the last step as the continuation of a suspended
\* switchUx call
SwitchUxContinuations ==
  IF Len(suspended') < Len(suspended)
  THEN { c \in [i : 1..Len(suspended), failed : BOOLEAN] :
           switchUxContinue(c.i, c.failed) }
  ELSE {}

\* C11: every switchUx(to, options) call sets override and selection to `to`
\* and emits exactly one TransitionDetail, with source 'switch', uxMode = to
\* and changed = (to differs from the selection held just before the call),
\* whatever runs between the call and the end of the call.
C11_SwitchDetailIsOfItsCall ==
  [][ /\ \A c \in SwitchUxCalls :
           /\ uxOverride' = c.to
           /\ uxMode' = c.to
           /\ IF c.outcome = "awaits" THEN Details(fx') = <<>>
              ELSE SwitchDetail(fx', c.to, uxMode)
      /\ \A c \in SwitchUxContinuations :
           SwitchDetail(fx', suspended[c.i].to, suspended[c.i].prev) ]_vars

\* the snapshots the last step handed to the storage, in order
Snapshots(f) ==
  [i \in 1..Len(Effects(f, "persist")) |-> Effects(f, "persist")[i][2]]

\* the last step rendered `ux` once and notified once
RenderedAndNotified(f, ux) ==
  /\ Effects(f, "render") = << render(ux) >>
  /\ Len(Details(f)) = 1

\* C12: switchUx(to, {persist:false}) makes no storage write and still sets
\* override and selection to `to`, renders and notifies; with persist left
\* out or true it writes exactly one snapshot, of the state the call has set.
\* (A call that suspends at its fullscreen request renders and notifies when
\* it continues, and writes nothing then.)
C12_PersistOption ==
  [][ /\ \A c \in SwitchUxCalls :
           /\ Snapshots(fx') =
                IF c.persist = "false" THEN <<>>
                ELSE << [displayMode |-> displayMode, uxMode |-> c.to,
                         isStandalone |-> isStandalone] >>
           /\ uxOverride' = c.to
           /\ uxMode' = c.to
           /\ c.outcome # "awaits" => RenderedAndNotified(fx', c.to)
      /\ \A c \in SwitchUxContinuations :
           /\ Snapshots(fx') = <<>>
           /\ RenderedAndNotified(fx', uxMode) ]_vars

\* a switch to 'web' has just rendered and notified without a storage write
C12_Witness ==
  /\ Snapshots(fx) = <<>>
  /\ RenderedAndNotified(fx, "web")
  /\ Emitted(fx, "switch")
  /\ uxOverride = "web"

\* the kinds of the effects of the last step, in order
Kinds(f) == [i \in 1..Len(f) |-> f[i][1]]

\* C13: within each triggering event (boot, a handled context change, a
\* switchUx call) the effects come in the order persist, render, notify: no
\* render precedes the event's persist, no notification precedes its render,
\* and boot and a handled context change do exactly persist, render, notify.
C13_PersistRenderNotifyOrder ==
  /\ \A i, j \in 1..Len(fx) :
       i < j =>
         /\ ~(fx[i][1] = "render" /\ fx[j][1] = "persist")
         /\ ~(fx[i][1] \in {"emit", "call"} /\ fx[j][1] \in {"persist", "render"})
  /\ (Emitted(fx, "detection") \/ Emitted(fx, "url") \/ ContextCycle(fx)) =>
       Kinds(fx) = <<"persist", "render", "emit">>
  /\ Emitted(fx, "switch") =>
       /\ Effects(fx, "render") # <<>>
       /\ Kinds(fx)[Len(fx) - 1] = "render"
       /\ Kinds(fx)[Len(fx)] = "emit"

\* a switchUx call has persisted, had its fullscreen request thrown, rendered
\* and notified in one step
C13_Witness ==
  Kinds(fx) = <<"persist", "requestFullscreen", "render", "emit">>

\* the last step changed the engine state, persisted, rendered or notified
Transition ==
  \/ engine' # engine
  \/ \E i \in 1..Len(fx') : fx'[i][1] \in {"persist", "render", "emit", "call"}

\* C14: no two transition computations interleave: between the start of a
\* switchUx call's sequence and its end (the call is suspended at its
\* fullscreen request) no other handler changes the state, persists, renders
\* or notifies; the only transition taken then is the call's own continuation.
C14_NoInterleaving ==
  [][ (suspended # <<>> /\ Transition) => Len(suspended') < Len(suspended) ]_vars

\* C15: the render and the notification of a switchUx call do not wait on
\* the fullscreen request: every call has rendered its target and emitted its
\* detail when it returns to its caller, the request settled or not.
C15_RenderDoesNotWait ==
  [][ \A c \in SwitchUxCalls : RenderedAndNotified(fx', c.to) ]_vars

\* the effects of the last step other than the fullscreen request itself
BesidesRequest(f) == SelectSeq(f, LAMBDA e : e[1] # "requestFullscreen")

\* C16: switchUx issues a fullscreen request only with requestFullscreen set
\* and target 'app'; when the request throws or rejects nothing is surfaced,
\* the engine state and the effects are those of the same call without a
\* request, and the call still renders and notifies.
C16_FullscreenRequest ==
  [][ /\ \A c \in SwitchUxCalls :
           /\ Effects(fx', "requestFullscreen") # <<>> =>
                c.requestFullscreen /\ c.to = "app"
           /\ Effects(fx', "throw") = <<>>
           /\ c.outcome = "throws" =>
                /\ engine' = <<displayMode, c.to, c.to, isStandalone>>
                /\ BesidesRequest(fx') =
                     (IF wantsPersist(c.persist)
                      THEN persistState(displayMode, c.to, isStandalone,
                                        switchTail(displayMode, c.to, uxMode))
                      ELSE switchTail(displayMode, c.to, uxMode))
                /\ RenderedAndNotified(fx', c.to)
      /\ \A c \in SwitchUxContinuations :
           (c.failed /\ suspended[c.i].status = "pending") =>
             /\ engine' = engine
             /\ fx' = switchTail(displayMode, uxMode, suspended[c.i].prev)
             /\ RenderedAndNotified(fx', uxMode) ]_vars

\* a call to 'app' whose fullscreen request threw has rendered and notified
C16_Witness ==
  /\ \E i \in 1..Len(fx) : fx[i] = <<"requestFullscreen", "app", "threw">>
  /\ RenderedAndNotified(fx, "app")
  /\ Emitted(fx, "switch")

\* ------------------------------------------------------------------ navigation claim
\* the URLs handed to window.location.assign in the last step
Assigned(f) ==
  [i \in 1..Len(Effects(f, "assign")) |-> Effects(f, "assign")[i][2]]

\* C17: switchUx with navigate:true calls window.location.assign exactly when
\* the computed target URL differs from pathname + search + hash of the
\* current location, for every strategy and route configuration; it never
\* assigns the current URL, and with navigate false it never assigns.
C17_NavigatesIffUrlDiffers ==
  Effects(fx, "switchUx") # <<>> =>
    LET url == navTo(nav.routes, nav.strategy, nav.location, nav.to)
        current == Current(nav.location)
    IN /\ (Assigned(fx) # <<>>) <=> (nav.navigate /\ url # current)
       /\ Assigned(fx) # <<>> => Assigned(fx) = <<url>>
       /\ \A i \in 1..Len(Assigned(fx)) : Assigned(fx)[i] # current
       /\ ~nav.navigate => Assigned(fx) = <<>>

\* navigate:true under the query strategy, no explicit route, on a page whose
\* URL already is the computed one: no navigation is issued
C17_Witness ==
  /\ Effects(fx, "navTo") # <<>>
  /\ Assigned(fx) = <<>>
  /\ nav.strategy = "query"
  /\ nav.routes.appHome = <<>>
  /\ nav.to = "app"

\* ------------------------------------------------------------------ observer claims
\* the calls of observers made in the last step, in order
Calls(f) == Effects(f, "call")

\* C18: when a callback throws during a notification the exception is caught:
\* every registered observer is still called with that TransitionDetail, no
\* exception leaves the operation, and the operation ends in the engine state
\* its detail describes, as without a failure.
C18_ObserverFailureIsContained ==
  /\ Effects(fx, "throw") = <<>>
  /\ \A k \in 1..Len(Details(fx)) :
       LET d == Details(fx)[k]
       IN /\ Calls(fx) = [i \in 1..Len(handlers) |->
                           <<"call", handlers[i], d,
                             IF handlers[i] \in faulty THEN "threw" ELSE "returned">>]
          /\ d.uxMode = uxMode
          /\ d.displayMode = displayMode

\* a callback threw and an observer registered after it was still called
C18_Witness ==
  \E i, j \in 1..Len(fx) :
    /\ i < j
    /\ fx[i][1] = "call" /\ fx[i][4] = "threw"
    /\ fx[j][1] = "call" /\ fx[j][4] = "returned"

\* a comes before b in the sequence hs
Before(hs, a, b) ==
  \E i, j \in 1..Len(hs) : i < j /\ hs[i] = a /\ hs[j] = b

\* the observers of the sequence hs
Subscribed(hs) == {hs[i] : i \in 1..Len(hs)}

BesidesPersist(f) == SelectSeq(f, LAMBDA e : e[1] # "persist")

\* the source of the detail emitted by a boot or a context-change cycle
CycleSources == {"detection", "url", "media", "fullscreen"}

\* C20: a storage write that fails during boot, a context change or a
\* switchUx is neither propagated nor retried: the step makes one write
\* attempt, no exception leaves it, and the engine state, the render and the
\* notification are those fixed by the operation alone, the same whether the
\* write was refused or accepted.
C20_StorageFailureIsIgnored ==
  [][ Snapshots(fx') # <<>> =>
        /\ Len(Snapshots(fx')) = 1
        /\ fx'[1][1] = "persist"
        /\ fx'[1][3] = ~storageFails
        /\ Effects(fx', "throw") = <<>>
        /\ Snapshots(fx')[1] = [displayMode |-> displayMode', uxMode |-> uxMode',
                                isStandalone |-> isStandalone']
        /\ \A src \in CycleSources :
             Emitted(fx', src) =>
               BesidesPersist(fx') =
                 << render(uxMode') >> \o emit(Detail(displayMode', uxMode', TRUE, src))
        /\ \A c \in SwitchUxCalls :
             BesidesPersist(BesidesRequest(fx')) =
               IF c.outcome = "awaits" THEN <<>>
               ELSE switchTail(displayMode, c.to, uxMode)
        /\ \/ \E src \in CycleSources : Emitted(fx', src)
           \/ Emitted(fx', "switch")
           \/ Len(suspended') > Len(suspended) ]_vars

\* a context-change cycle whose write was refused has rendered and notified
C20_Witness ==
  /\ Len(fx) = 3
  /\ fx[1][1] = "persist" /\ fx[1][3] = FALSE
  /\ fx[2] = render(uxMode)
  /\ ContextCycle(fx)

\* ------------------------------------------------------------------ boot claims
\* the inputs of the boot that made this step
Boots ==
  IF booted THEN {}
  ELSE { b \in [strategy : Strategies, query : QueryValues, hash : HashValues] :
           initWith(b.strategy, b.query, b.hash) }

\* C21 (as claimed): when an environment API used by detection is missing
\* (window.matchMedia is absent), detection raises no error and returns
\* Browser, so a boot still renders and notifies with a decided selection.
C21_MissingApiBootsAsBrowser ==
  [][ (Boots # {} /\ ~hasMatchMedia) =>
        /\ Effects(fx', "throw") = <<>>
        /\ displayMode' = "browser"
        /\ RenderedAndNotified(fx', uxMode') ]_vars

\* C22 (as claimed): a boot sets isStandalone to (displayMode = standalone),
\* computes the selection with the resolver and emits exactly one detail,
\* whose source is the initial detection, also when the URL intent supplied
\* the override.
C22_BootEmitsDetection ==
  [][ (Boots # {} /\ hasMatchMedia) =>
        /\ isStandalone' = (displayMode' = "standalone")
        /\ uxMode' = resolveUxMode(displayMode', isStandalone', uxOverride', cfg.mapping)
        /\ Len(Details(fx')) = 1
        /\ Details(fx')[1].source = "detection" ]_vars

\* C23: a boot (in a browser that has matchMedia; without it the boot does not
\* get to the URL, see C21) sets the override from the URL exactly when the
\* intent is well-formed: under the query strategy iff the parameter's value
\* is exactly "app" or "web", under the hash strategy iff the fragment starts
\* with the app token or the web token, under the runtime strategy never.
\* Otherwise the override is left as it was, and where it was unset the
\* selection is the one the mapping gives the detected context.
C23_OverrideFromWellFormedIntent ==
  [][ \A b \in Boots :
        hasMatchMedia =>
          LET byQuery == b.strategy = "query" /\ b.query \in {"app", "web"}
              appHash == b.strategy = "hash" /\ StartsWith(Chars(b.hash), Chars("#/app"))
              webHash == b.strategy = "hash" /\ ~appHash
                           /\ StartsWith(Chars(b.hash), Chars("#/web"))
          IN /\ byQuery => uxOverride' = b.query
             /\ appHash => uxOverride' = "app"
             /\ webHash => uxOverride' = "web"
             /\ ~(byQuery \/ appHash \/ webHash) =>
                  /\ uxOverride' = uxOverride
                  /\ uxOverride = None =>
                       uxMode' = CASE displayMode' = "standalone" -> cfg.mapping.standaloneTo
                                   [] displayMode' = "browser" -> cfg.mapping.browserTo
                                   [] displayMode' = "fullscreen" -> "web" ]_vars

\* a boot has taken the override "web" from the URL
C23_Witness ==
  /\ booted
  /\ Emitted(fx, "url")
  /\ uxOverride = "web"
  /\ uxMode = "web"
  /\ displayMode = "standalone"

\* ------------------------------------------------------------------ storage is write-only
\* C24: what localStorage holds never influences behaviour: a step taken with
\* one content of the storage is, with the same inputs, the same step with
\* every other content: the same displayMode, isStandalone, uxOverride and
\* uxMode, the same writes, renders and notifications. (Boot is the one
\* operation given the stored keys; no other operation has them.)
C24_StorageIsNeverRead ==
  [][ \A b \in Boots, snapshot \in StoredValues :
        initFrom(snapshot, b.strategy, b.query, b.hash) ]_vars

\* a browser tab has booted as browser/web, over a storage that may hold the
\* standalone/app keys of an earlier load
C24_Witness ==
  /\ booted
  /\ Emitted(fx, "detection")
  /\ displayMode = "browser"
  /\ ~isStandalone
  /\ uxMode = "web"
  /\ [displayMode |-> "standalone", uxMode |-> "app", isStandalone |-> "true"] \in StoredValues

\* ------------------------------------------------------------------ detection claim
\* the sample the last step detected over, and what detection gave
Detections(f) == { <<e[2], e[3]>> : e \in { f[i] : i \in { j \in 1..Len(f) : f[j][1] = "detect" } } }

\* C27: detection follows first-match precedence for every combination of
\* the signals (matchMedia being there): Fullscreen whenever a fullscreen
\* element is active, whatever the media queries report; otherwise Standalone
\* if the standalone query matches, or navigator.standalone is true, or the
\* mobile heuristic holds (mobile user agent, no referrer, viewport matching
\* the screen, navigator.standalone undefined), even when the fullscreen query
\* matches too; otherwise Fullscreen if the fullscreen query matches;
\* otherwise Browser.
C27_DetectPrecedence ==
  \A d \in Detections(fx) :
    LET s == d[1]
        result == d[2]
        heuristic == /\ s.isMobile
                     /\ s.noReferrer
                     /\ s.fitsScreen
                     /\ s.standalone = "undefined"
        installed == s.mediaStandalone \/ s.standalone = "true" \/ heuristic
    IN s.hasMatchMedia =>
         /\ s.fullscreenElement => result = "fullscreen"
         /\ (~s.fullscreenElement /\ installed) => result = "standalone"
         /\ (~s.fullscreenElement /\ ~installed /\ s.mediaFullscreen) => result = "fullscreen"
         /\ (~s.fullscreenElement /\ ~installed /\ ~s.mediaFullscreen) => result = "browser"

\* detection has given Fullscreen for an active fullscreen element while the
\* standalone query matched, and Standalone by the heuristic alone while the
\* fullscreen query matched
C27_Witness ==
  \E d \in Detections(fx) :
    \/ /\ d[1].fullscreenElement /\ d[1].mediaStandalone /\ d[1].hasMatchMedia
       /\ d[2] = "fullscreen"
    \/ /\ ~d[1].fullscreenElement /\ ~d[1].mediaStandalone /\ d[1].standalone = "undefined"
       /\ d[1].mediaFullscreen /\ d[1].hasMatchMedia
       /\ d[2] = "standalone"

\* ------------------------------------------------------------------ render claims
\* the render() calls of the last step over the DOM
Renders(f) ==
  { e[2] : e \in { f[i] : i \in { j \in 1..Len(f) : f[j][1] = "dom" /\ f[j][2].ux # Absent } } }

\* the container does not carry the hidden class
Visible(el, hidden) == el.present /\ hidden \notin el.classes

\* C25: after render, for every selection and every prior state of the
\* containers: if the container of the selection exists it is visible and the
\* other, if present, is hidden; if it is absent and the other exists, the
\* other is visible; so whenever a container exists, not every existing
\* container is hidden; with both absent render changes nothing and raises
\* nothing.
C25_RenderShowsOneContainer ==
  \A r \in Renders(fx) :
    LET target == IF r.ux = "app" THEN r.after.app ELSE r.after.web
        other == IF r.ux = "app" THEN r.after.web ELSE r.after.app
    IN /\ target.present =>
            /\ Visible(target, r.hidden)
            /\ other.present => ~Visible(other, r.hidden)
       /\ (~target.present /\ other.present) => Visible(other, r.hidden)
       /\ (target.present \/ other.present) =>
            (Visible(target, r.hidden) \/ Visible(other, r.hidden))
       /\ (~target.present /\ ~other.present) => r.after = r.before
       /\ r.after.app.present = r.before.app.present
       /\ r.after.web.present = r.before.web.present

\* render has fallen back to the web container, hidden until then, for a
\* selection whose container is missing
C25_Witness ==
  \E r \in Renders(fx) :
    /\ r.ux = "app"
    /\ ~r.before.app.present
    /\ r.before.web.present /\ ~Visible(r.before.web, r.hidden)
    /\ Visible(r.after.web, r.hidden)

\* C26: render is idempotent: for every selection, container presence and
\* prior state, a second render in a row leaves the DOM as the first left it.
C26_RenderIsIdempotent ==
  \A r \in Renders(fx) : r.again => r.after = r.before

\* render has run twice in a row over two present containers
C26_Witness ==
  \E r \in Renders(fx) :
    /\ r.again
    /\ r.before.app.present /\ r.before.web.present
    /\ Visible(r.after.web, r.hidden) /\ ~Visible(r.after.app, r.hidden)

\* ------------------------------------------------------------------ configure claim
\* the options.mapping of the configure call that made this step
Configures == { mo \in MappingOptions : configureWith(mo) }

\* C28: configure merges the supplied options over the current configuration:
\* each of mapping.standaloneTo and mapping.browserTo takes the supplied value
\* when supplied and otherwise keeps the value it had, which is the default
\* "app" / "web" as long as it was never configured; nothing but configure
\* changes the mapping, so successive calls accumulate.
C28_ConfigureMerges ==
  /\ cfg.mapping.standaloneTo = "app"
  /\ cfg.mapping.browserTo = "web"
  /\ [][ /\ \A mo \in Configures :
              \A k \in {"standaloneTo", "browserTo"} :
                cfg'.mapping[k] = IF mo[k] # Absent THEN mo[k] ELSE cfg.mapping[k]
         /\ Configures = {} => cfg' = cfg ]_vars

\* two configure calls, one for each key, have left a mapping that differs
\* from the defaults in both, and a standalone boot has used it
C28_Witness ==
  /\ cfg.mapping.standaloneTo = "web"
  /\ cfg.mapping.browserTo = "app"
  /\ booted
  /\ displayMode = "standalone"
  /\ uxOverride = None
  /\ uxMode = "web"

\* ------------------------------------------------------------------ debounce claim
\* a MediaQueryList delivered 'change' to the bound listener in this step
MediaSignal == booted /\ media' # media

\* C29: the media-query signals are coalesced by one pending timer: at most
\* one recompute is pending at any time; each new signal discards the pending
\* one and leaves its own; a burst of signals gives one recompute, which runs
\* after the last signal of the burst (it reads the environment as it is when
\* the timer fires, and no timer is left pending behind it); and a pending
\* recompute does run unless signals keep coming for ever.
C29_SignalsAreCoalesced ==
  /\ [](t <= 1)
  /\ [][ /\ MediaSignal => t' = 1
         /\ TimerFired =>
              /\ t' = 0
              /\ media' = media
              /\ displayMode' = detectDisplayMode
         /\ (t' > t) => MediaSignal ]_vars
  /\ ([]<><<MediaSignal>>_vars \/ ((t > 0) ~> (t = 0)))

\* the recompute of a burst has run: the media feature went from browser to
\* standalone (two lists signalled), the timer fired once and nothing is pending
C29_Witness ==
  /\ booted
  /\ t = 0
  /\ Emitted(fx, "media")
  /\ media = "standalone"
  /\ displayMode = "standalone"

\* ------------------------------------------------------------------ handlers and resolver
\* C30: with no override active, after boot and after every completed
\* context-change cycle of either handler the selection is what the resolver
\* gives for the state the step leaves (the inline fullscreen branches of the
\* two handlers agree with it), and what the step persisted, rendered and
\* emitted is that state: no other selection is written, shown or announced.
C30_HandlersAgreeWithResolver ==
  [][ ( /\ uxOverride' = None
        /\ \E i \in 1..Len(fx') :
             fx'[i][1] = "emit" /\ fx'[i][2].source \in CycleSources ) =>
        /\ uxMode' = resolveUxMode(displayMode', isStandalone', None, cfg'.mapping)
        /\ \A i \in 1..Len(Snapshots(fx')) :
             Snapshots(fx')[i] = [displayMode |-> displayMode', uxMode |-> uxMode',
                                  isStandalone |-> isStandalone']
        /\ Len(Snapshots(fx')) = 1
        /\ Effects(fx', "render") = << render(uxMode') >>
        /\ Len(Details(fx')) = 1
        /\ Details(fx')[1].uxMode = uxMode'
        /\ Details(fx')[1].displayMode = displayMode' ]_vars

\* the media-query handler has taken a standalone session into Fullscreen under
\* a mapping that sends standalone to "web": the inline branch gave "app"
C30_Witness ==
  /\ Emitted(fx, "media")
  /\ displayMode = "fullscreen"
  /\ isStandalone
  /\ uxOverride = None
  /\ uxMode = "app"
  /\ cfg.mapping.standaloneTo = "web"

\* ------------------------------------------------------------------ two signal sources
\* a handler of either signal source ran in this step
HandlerRan == TimerFired \/ FsDispatched

\* C31: a change of the environment reported through both signal sources gets
\* exactly one persist/render/notify cycle, in either order of the handlers:
\* the handler that runs first leaves displayMode at what the environment
\* shows and performs one cycle; nothing that happens while the environment
\* stays as it is moves displayMode away from that; and a handler that finds
\* displayMode at what it detects changes nothing and performs no effect.
C31_OneCyclePerChange ==
  [][ /\ HandlerRan =>
           /\ env' = env
           /\ displayMode' = detectDisplayMode
           /\ displayMode' = Detected
           /\ IF displayMode = Detected
              THEN fx' = <<>> /\ engine' = engine
              ELSE /\ Len(Snapshots(fx')) = 1
                   /\ Len(Effects(fx', "render")) = 1
                   /\ Len(Details(fx')) = 1
                   /\ ContextCycle(fx')
      /\ (env' = env /\ displayMode = detectDisplayMode) =>
           displayMode' = detectDisplayMode ]_vars

\* the environment shows fullscreen through both sources (the fullscreen
\* element and the media feature), displayMode is Fullscreen, no signal is
\* left to handle, and the handler that ran last found the context
\* unchanged and did nothing
C31_Witness ==
  /\ booted
  /\ fullscreenElement /\ media = "fullscreen"
  /\ displayMode = "fullscreen"
  /\ uxOverride = None
  /\ t = 0 /\ fsPending = 0 /\ suspended = <<>>
  /\ fx = <<>>

\* ------------------------------------------------------------------ observers see the current state
\* the details handed to observer h in the last step, in the order of the calls
Delivered(f, h) ==
  LET cs == SelectSeq(f, LAMBDA e : e[1] = "call" /\ e[2] = h)
  IN [i \in 1..Len(cs) |-> cs[i][3]]

\* C32 (as claimed): whenever the engine is idle (no switchUx suspended), the
\* last detail handed to each subscribed observer carries the current
\* displayMode and uxMode, and all subscribed observers were handed the
\* details of the step in one and the same order, also when an observer calls
\* switchUx from inside its callback.
C32_ObserversSeeCurrentState ==
  suspended = <<>> =>
    \A h \in Subscribed(handlers) :
      LET ds == Delivered(fx, h)
      IN /\ ds # <<>> =>
              /\ ds[Len(ds)].displayMode = displayMode
              /\ ds[Len(ds)].uxMode = uxMode
         /\ \A g \in Subscribed(handlers) : Delivered(fx, g) = ds

\* ------------------------------------------------------------------ the persisted snapshot
\* the three values persistState writes, as the step leaves them
Live == [displayMode |-> displayMode, uxMode |-> uxMode, isStandalone |-> isStandalone]

====
